---- MODULE Spec2Model ----
(***************************************************************************)
(* The striping encoder of examples/simple-encoder.go: main reads the      *)
(* input in windows of dataShards*blockSize bytes through a bufio.Reader,  *)
(* splits and encodes each window, draws a placement with genRandomArr and *)
(* writes one block per destination file.                                  *)
(***************************************************************************)
EXTENDS Integers, Sequences, FiniteSets, TLC

(* ------------------------------ bounds --------------------------------- *)
\* Input files hold at most MaxStripes full stripes.
MaxStripes == 3
\* Block sizes range over 1..MaxBlock.
MaxBlock == 2
\* Size of the bufio.Reader's internal buffer (4096 in the Go library),
\* scaled down with the block sizes.
BufSize == 3
\* genRandomArr is exercised on its own for n in 0..MaxShuffleN.
MaxShuffleN == 5

(* --------------------------- program constants ------------------------- *)
\* "sum of data and parity shards cannot exceed 256"
MaxShards == 256
\* A byte holds a value in 0..ByteMod-1.
ByteMod == 256

\* The configurations the run is started with: small ones that are encoded,
\* and ones whose shard sum exceeds MaxShards.
SmallConfigs == { <<k, 1>> : k \in 1..2 }
BigConfigs == { <<255, 2>>, <<256, 1>>, <<200, 100>> }

\* Contents of the input file: byte p (from 1) is (a*p + c) % ByteMod.
Patterns == { <<0, 0>>, <<1, 0>> }
FileOf(len, pat) == [p \in 1..len |-> (pat[1] * p + pat[2]) % ByteMod]

Min(a, b) == IF a < b THEN a ELSE b
Zeros(len) == [p \in 1..len |-> 0]

VARIABLES
    nargs,          \* len(flag.Args())
    dataShards,     \* *dataShards
    parShards,      \* *parShards
    blockSize,      \* *blockSize
    input,          \* contents of the input file
    writeAccess,    \* whether a handle opened O_CREATE|O_APPEND accepts writes
    pc,             \* position of main
    inputOpen,      \* the input file has been opened
    fpos,           \* offset of f
    rbuf,           \* bytes buffered in buf and not yet delivered
    data,           \* the stripe buffer
    b,              \* byte count of the last buf.Read
    shards,         \* the shard set of the current stripe
    stripeno,
    stripeNum,
    distribution,   \* the ledger: stripeNum entries, <<>> where nil
    idx,            \* loop variable i of the write loop
    of,             \* of[i]: index into handles, 0 where nil
    handles,        \* every destination handle opened so far
    files,          \* contents of the destination files
    wlog,           \* the Write calls issued so far
    recorded,       \* the ledger indices assigned so far, in order
    fault,          \* the error that ended the run: "none", "read", "split", "encode"
    shN,            \* argument of a stand-alone genRandomArr call
    shDone,         \* that call has returned
    shOut           \* its result

mainVars == <<nargs, dataShards, parShards, blockSize, input, writeAccess, pc,
              inputOpen, fpos, rbuf, data, b, shards, stripeno, stripeNum,
              distribution, idx, of, handles, files, wlog, recorded, fault>>
shVars == <<shN, shDone, shOut>>
vars == <<mainVars, shVars>>

NShards == dataShards + parShards
stripeSize == dataShards * blockSize
fileSize == Len(input)

(* ---------------------------- genRandomArr ----------------------------- *)
\* shuff as a sequence: shuff[i] of the code is Shuff[i+1] here.
Identity(n) == [p \in 1..n |-> p - 1]

\* A swap that copies one way only: shuff[i] = shuff[j].
SwapLossy(s, i, j) == [s EXCEPT ![i + 1] = s[j + 1]]

Swap(s, i, j) == [s EXCEPT ![i + 1] = s[j + 1], ![j + 1] = s[i + 1]]

\* The draws of rand.Shuffle: for i = n-1 down to 1, j in 0..i.
Draws(n) == { js \in [1..(n - 1) -> 0..(n - 1)] : \A i \in 1..(n - 1) : js[i] <= i }

RECURSIVE ShuffleFrom(_, _, _)
ShuffleFrom(s, i, js) ==
    IF i <= 0 THEN s ELSE ShuffleFrom(Swap(s, i, js[i]), i - 1, js)

\* The results genRandomArr(n) can return.
genRandomArr(n) == { ShuffleFrom(Identity(n), n - 1, js) : js \in Draws(n) }

IsPermutation(p, n) ==
    /\ Len(p) = n
    /\ { p[q] : q \in 1..n } = 0..(n - 1)

(* ------------------------------- codec --------------------------------- *)
\* Split: dataShards consecutive slices of the buffer, parity slots zeroed.
Split(buf, k, m, bs) ==
    [j \in 1..(k + m) |->
        IF j <= k THEN [o \in 1..bs |-> buf[(j - 1) * bs + o]] ELSE Zeros(bs)]

RECURSIVE SumAt(_, _, _)
SumAt(sh, k, o) == IF k = 0 THEN 0 ELSE (sh[k][o] + SumAt(sh, k - 1, o)) % ByteMod

\* Encode: parity shards filled as a function of the data shards.
Encode(sh, k, m, bs) ==
    [j \in 1..(k + m) |->
        IF j <= k THEN sh[j] ELSE [o \in 1..bs |-> (SumAt(sh, k, o) + (j - k - 1)) % ByteMod]]

(* -------------------------------- main --------------------------------- *)
InitMain ==
    /\ nargs \in 0..2
    /\ \E c \in SmallConfigs \cup BigConfigs :
          /\ dataShards = c[1]
          /\ parShards = c[2]
          /\ blockSize \in 1..MaxBlock
          /\ \E len \in 0..(IF c \in SmallConfigs THEN MaxStripes * c[1] * blockSize ELSE 0),
                pat \in Patterns :
                input = FileOf(len, pat)
    /\ writeAccess \in BOOLEAN
    /\ pc = "parse"
    /\ inputOpen = FALSE
    /\ fpos = 0
    /\ rbuf = <<>>
    /\ data = <<>>
    /\ b = 0
    /\ shards = <<>>
    /\ stripeno = 0
    /\ stripeNum = 0
    /\ distribution = <<>>
    /\ idx = 0
    /\ of = <<>>
    /\ handles = <<>>
    /\ files = <<>>
    /\ wlog = <<>>
    /\ recorded = <<>>
    /\ fault = "none"

Init ==
    /\ InitMain
    /\ shN = 0
    /\ shDone = FALSE
    /\ shOut = <<>>

\* The limit taken one too high.
TooManyShardsOffByOne(k, m) == k + m > MaxShards + 1

\* Line 85: the shard sum the run refuses.
TooManyShards(k, m) == k + m > MaxShards

\* Lines 78-88: the argument count and the shard sum are checked; nothing
\* has been opened yet.
ParseFlags ==
    /\ pc = "parse"
    /\ pc' = IF nargs # 1 THEN "exit1"
             ELSE IF TooManyShards(dataShards, parShards) THEN "exit1"
             ELSE "setup"
    /\ UNCHANGED <<nargs, dataShards, parShards, blockSize, input, writeAccess,
                   inputOpen, fpos, rbuf, data, b, shards, stripeno, stripeNum,
                   distribution, idx, of, handles, files, wlog, recorded, fault>>
    /\ UNCHANGED shVars

\* Line 117: stripeNum := (fileSize + stripeSize - 1) / stripeSize
StripeCount(size, ssize) == (size + ssize - 1) \div ssize

\* Lines 89-118: the codec is built, the input is opened, hashed in one pass
\* and rewound, and the buffers and the ledger are allocated.
Setup ==
    /\ pc = "setup"
    /\ inputOpen' = TRUE
    /\ fpos' = 0
    /\ rbuf' = <<>>
    /\ stripeno' = 0
    /\ data' = Zeros(stripeSize)
    /\ of' = [i \in 1..NShards |-> 0]
    /\ files' = [i \in 1..NShards |-> <<>>]
    /\ stripeNum' = StripeCount(fileSize, stripeSize)
    /\ distribution' = [s \in 1..StripeCount(fileSize, stripeSize) |-> <<>>]
    /\ pc' = "read"
    /\ UNCHANGED <<nargs, dataShards, parShards, blockSize, input, writeAccess,
                   b, shards, idx, handles, wlog, recorded, fault>>
    /\ UNCHANGED shVars

\* n bytes of the input from offset pos.
FileBytes(pos, n) == [p \in 1..n |-> input[pos + p]]

\* copy(dst, src): the first Len(src) bytes of dst are replaced.
Overlay(dst, src) == [p \in 1..Len(dst) |-> IF p <= Len(src) THEN src[p] ELSE dst[p]]

\* buf.Read(p) with len(p) = want: what it delivers, what stays buffered and
\* where the file offset ends up. With an empty buffer a read of at least
\* BufSize bytes goes straight to the file; a smaller one fills the buffer
\* with one read of the file. Bytes already buffered are delivered without
\* reading the file again.
BufRead(want, buffered, pos) ==
    IF buffered = <<>>
    THEN IF want >= BufSize
         THEN LET n == Min(want, fileSize - pos)
              IN  [bytes |-> FileBytes(pos, n), rbuf |-> <<>>, fpos |-> pos + n]
         ELSE LET got == Min(BufSize, fileSize - pos)
                  filled == FileBytes(pos, got)
                  n == Min(want, got)
              IN  [bytes |-> SubSeq(filled, 1, n),
                   rbuf |-> SubSeq(filled, n + 1, got),
                   fpos |-> pos + got]
    ELSE LET n == Min(want, Len(buffered))
         IN  [bytes |-> SubSeq(buffered, 1, n),
              rbuf |-> SubSeq(buffered, n + 1, Len(buffered)),
              fpos |-> pos]

\* Line 121: the bytes delivered overwrite the head of data; the rest of
\* data keeps what it held.
FillData(old, bytes) == Overlay(old, bytes)

\* Lines 122-124: an error other than io.EOF panics.
AfterRead(err) == IF err THEN "readpanic" ELSE "split"

\* Lines 121-124: b, err := buf.Read(data); end of file is not an error,
\* any other read error is.
ReadStripe ==
    /\ pc = "read"
    /\ \E err \in BOOLEAN :
          /\ IF err
             THEN UNCHANGED <<b, data, rbuf, fpos>>
             ELSE LET r == BufRead(stripeSize, rbuf, fpos)
                  IN  /\ b' = Len(r.bytes)
                      /\ data' = FillData(data, r.bytes)
                      /\ rbuf' = r.rbuf
                      /\ fpos' = r.fpos
          /\ fault' = IF err THEN "read" ELSE fault
          /\ pc' = AfterRead(err)
    /\ UNCHANGED <<nargs, dataShards, parShards, blockSize, input, writeAccess,
                   inputOpen, shards, stripeno, stripeNum, distribution, idx,
                   of, handles, files, wlog, recorded>>
    /\ UNCHANGED shVars

\* An error that is looked at and let pass.
CheckErrIgnored(err, next) == next

\* Lines 164-169: checkErr(err) ends the run with status 2 on an error.
CheckErr(err, next) == IF err THEN "exit2" ELSE next

\* Lines 127-129: shards, err := enc.Split(data); checkErr(err)
SplitStripe ==
    /\ pc = "split"
    /\ \E err \in BOOLEAN :
          /\ shards' = IF err THEN <<>> ELSE Split(data, dataShards, parShards, blockSize)
          /\ fault' = IF err THEN "split" ELSE fault
          /\ pc' = CheckErr(err, "encode")
    /\ UNCHANGED <<nargs, dataShards, parShards, blockSize, input, writeAccess,
                   inputOpen, fpos, rbuf, data, b, stripeno, stripeNum,
                   distribution, idx, of, handles, files, wlog, recorded>>
    /\ UNCHANGED shVars

\* Lines 131-132: err = enc.Encode(shards); checkErr(err)
EncodeStripe ==
    /\ pc = "encode"
    /\ \E err \in BOOLEAN :
          /\ shards' = IF err THEN shards ELSE Encode(shards, dataShards, parShards, blockSize)
          /\ fault' = IF err THEN "encode" ELSE fault
          /\ pc' = CheckErr(err, "permute")
    /\ UNCHANGED <<nargs, dataShards, parShards, blockSize, input, writeAccess,
                   inputOpen, fpos, rbuf, data, b, stripeno, stripeNum,
                   distribution, idx, of, handles, files, wlog, recorded>>
    /\ UNCHANGED shVars

\* Line 139: the index distribution[stripeno] exists.
InLedger(s, count) == s < count

\* Lines 135-139: distribution[stripeno] = genRandomArr(k+m); an index
\* outside the ledger panics.
Permute ==
    /\ pc = "permute"
    /\ IF InLedger(stripeno, Len(distribution))
       THEN \E perm \in genRandomArr(NShards) :
               /\ distribution' = [distribution EXCEPT ![stripeno + 1] = perm]
               /\ recorded' = Append(recorded, stripeno)
               /\ idx' = 0
               /\ pc' = "write"
       ELSE /\ pc' = "panic"
            /\ UNCHANGED <<distribution, recorded, idx>>
    /\ UNCHANGED <<nargs, dataShards, parShards, blockSize, input, writeAccess,
                   inputOpen, fpos, rbuf, data, b, shards, stripeno, stripeNum,
                   of, handles, files, wlog, fault>>
    /\ UNCHANGED shVars

\* The placement left unused: j := i.
ShardForUnpermuted(perm, i) == i

\* Line 141: j := distribution[stripeno][i]
ShardFor(perm, i) == perm[i + 1]

\* The write loop left one shard early.
MoreShardsButLast(i, n) == i < n - 1

\* Line 140: for i := range shards
MoreShards(i, n) == i < n

\* Line 147: of[i].Write(shards[j]); a handle without write access rejects
\* the write and the file keeps its contents.
Written(old, bytes, ok) == IF ok THEN old \o bytes ELSE old

\* Lines 140-149, one iteration: destination i is opened again, the handle
\* replaces of[i], shard j is written through it and the result of the
\* write is dropped.
WriteShard ==
    /\ pc = "write"
    /\ MoreShards(idx, Len(shards))
    /\ LET j == ShardFor(distribution[stripeno + 1], idx)
       IN  /\ handles' = Append(handles, [dest |-> idx, open |-> TRUE])
           /\ of' = [of EXCEPT ![idx + 1] = Len(handles) + 1]
           /\ files' = [files EXCEPT ![idx + 1] = Written(@, shards[j + 1], writeAccess)]
           /\ wlog' = Append(wlog, [stripe |-> stripeno, dest |-> idx, shard |-> j,
                                    bytes |-> shards[j + 1], ok |-> writeAccess])
    /\ idx' = idx + 1
    /\ UNCHANGED <<nargs, dataShards, parShards, blockSize, input, writeAccess,
                   pc, inputOpen, fpos, rbuf, data, b, shards, stripeno,
                   stripeNum, distribution, recorded, fault>>
    /\ UNCHANGED shVars

\* Line 150: the stripe just written was the last one.
IsFinal(n, ssize) == n < ssize

\* The stripe index left where it is.
NextStripeStuck(s) == s

\* Line 153: stripeno++
NextStripe(s) == s + 1

\* Lines 150-153: the loop ends after a short read, else the next stripe.
LoopTail ==
    /\ pc = "write"
    /\ ~MoreShards(idx, Len(shards))
    /\ IF IsFinal(b, stripeSize)
       THEN pc' = "close" /\ UNCHANGED stripeno
       ELSE pc' = "read" /\ stripeno' = NextStripe(stripeno)
    /\ UNCHANGED <<nargs, dataShards, parShards, blockSize, input, writeAccess,
                   inputOpen, fpos, rbuf, data, b, shards, stripeNum,
                   distribution, idx, of, handles, files, wlog, recorded, fault>>
    /\ UNCHANGED shVars

\* Lines 155-157: the handles held in of are closed.
CloseAll ==
    /\ pc = "close"
    /\ handles' = [h \in 1..Len(handles) |->
                     IF \E i \in 1..Len(of) : of[i] = h
                     THEN [handles[h] EXCEPT !.open = FALSE]
                     ELSE handles[h]]
    /\ pc' = "done"
    /\ UNCHANGED <<nargs, dataShards, parShards, blockSize, input, writeAccess,
                   inputOpen, fpos, rbuf, data, b, shards, stripeno, stripeNum,
                   distribution, idx, of, files, wlog, recorded, fault>>
    /\ UNCHANGED shVars

Next ==
    \/ ParseFlags
    \/ Setup
    \/ ReadStripe
    \/ SplitStripe
    \/ EncodeStripe
    \/ Permute
    \/ WriteShard
    \/ LoopTail
    \/ CloseAll

Spec == Init /\ [][Next]_vars

(* ------------------- genRandomArr as a function of n ------------------- *)
InitShuffle ==
    /\ nargs = 0
    /\ dataShards = 1
    /\ parShards = 1
    /\ blockSize = 1
    /\ input = <<>>
    /\ writeAccess = FALSE
    /\ pc = "parse"
    /\ inputOpen = FALSE
    /\ fpos = 0
    /\ rbuf = <<>>
    /\ data = <<>>
    /\ b = 0
    /\ shards = <<>>
    /\ stripeno = 0
    /\ stripeNum = 0
    /\ distribution = <<>>
    /\ idx = 0
    /\ of = <<>>
    /\ handles = <<>>
    /\ files = <<>>
    /\ wlog = <<>>
    /\ recorded = <<>>
    /\ fault = "none"
    /\ shN \in 0..MaxShuffleN
    /\ shDone = FALSE
    /\ shOut = <<>>

\* Lines 67-75: one call genRandomArr(shN).
CallGenRandomArr ==
    /\ ~shDone
    /\ \E r \in genRandomArr(shN) : shOut' = r
    /\ shDone' = TRUE
    /\ UNCHANGED shN
    /\ UNCHANGED mainVars

SpecShuffle == InitShuffle /\ [][CallGenRandomArr]_vars

(* ------------------------- reading the state --------------------------- *)
\* main has allocated its buffers and entered the loop.
InLoop ==
    pc \in {"read", "split", "encode", "permute", "write", "close", "done", "panic",
            "readpanic", "exit2"}

\* The run is over: normally, or by the panic of an index out of range.
Ended == pc \in {"done", "panic"}

\* Iterations of the loop begun so far.
Iterations == stripeno + 1

\* Stripes the loop has handed to the write loop so far.
Processed == IF pc \in {"write", "close", "done"} THEN stripeno + 1 ELSE stripeno

\* Bytes of stripe s of the input (the last one may be short).
InputStripe(s) ==
    [p \in 1..Min(stripeSize, fileSize - s * stripeSize) |-> input[s * stripeSize + p]]

\* The s-th block of destination file d.
Block(d, s) == SubSeq(files[d + 1], s * blockSize + 1, (s + 1) * blockSize)

\* The Write calls issued on destination d, in the order issued.
WritesTo(d) == SelectSeq(wlog, LAMBDA e : e.dest = d)

(* -------------------------------- C1 ----------------------------------- *)
\* C1: for an input whose length is a positive exact multiple of
\* k*blockSize, the loop runs exactly fileSize/(k*blockSize) iterations and
\* every destination file receives that many blocks of blockSize bytes.
C1_ExactMultipleStripes ==
    (Ended /\ fileSize > 0 /\ fileSize % stripeSize = 0) =>
        /\ Iterations = fileSize \div stripeSize
        /\ \A d \in 0..(NShards - 1) :
              Len(files[d + 1]) = (fileSize \div stripeSize) * blockSize

(* -------------------------------- C2 ----------------------------------- *)
\* C2: for an input whose length is not a multiple of k*blockSize, after
\* the run every destination file holds ceil(fileSize/(k*blockSize)) *
\* blockSize bytes.
C2_PaddedLength ==
    (pc = "done" /\ fileSize % stripeSize # 0) =>
        \A d \in 0..(NShards - 1) :
            Len(files[d + 1]) = StripeCount(fileSize, stripeSize) * blockSize

(* -------------------------------- C3 ----------------------------------- *)
\* Offset in the input of the first byte the last read delivered.
ReadStart == fpos - Len(rbuf) - b

\* C3: when the read delivers b < k*blockSize bytes, the buffer handed to
\* Split holds those b input bytes followed by zero bytes only.
C3_ShortStripeZeroPadded ==
    (pc = "split" /\ b < stripeSize) =>
        \A p \in 1..stripeSize :
            data[p] = IF p <= b THEN input[ReadStart + p] ELSE 0

(* -------------------------------- C4 ----------------------------------- *)
\* C4 as stated: shard i of stripe s is written to the destination file
\* whose index is distribution[s][i].
C4_ShardToPermutedFile ==
    \A q \in 1..Len(wlog) :
        wlog[q].dest = distribution[wlog[q].stripe + 1][wlog[q].shard + 1]

\* C4 amended: the Write issued on destination file i for stripe s is given
\* the bytes of shard distribution[s][i]; the ledger entry maps the file
\* index to the shard index.
C4_FileGetsPermutedShard ==
    \A q \in 1..Len(wlog) :
        LET e == wlog[q]
        IN  /\ e.shard = distribution[e.stripe + 1][e.dest + 1]
            /\ e.stripe = stripeno => e.bytes = shards[e.shard + 1]
            /\ (e.ok /\ e.stripe = stripeno) =>
                  SubSeq(files[e.dest + 1], Len(files[e.dest + 1]) - blockSize + 1,
                         Len(files[e.dest + 1])) = shards[e.shard + 1]

\* A stripe has been written under a placement that is not its own inverse.
C4_Witness ==
    /\ pc = "write"
    /\ idx = Len(shards)
    /\ writeAccess
    /\ \E i \in 1..NShards :
          distribution[stripeno + 1][distribution[stripeno + 1][i] + 1] # i - 1

(* -------------------------------- C5 ----------------------------------- *)
\* C5: genRandomArr(n) returns a sequence of length n holding every value
\* of 0..n-1 exactly once, whatever the shuffle draws; for n = 0 and n = 1
\* it is the identity.
C5_ShuffleIsPermutation ==
    shDone =>
        /\ IsPermutation(shOut, shN)
        /\ Cardinality({ shOut[q] : q \in 1..Len(shOut) }) = Len(shOut)
        /\ shN <= 1 => shOut = Identity(shN)

\* A call returned an order other than the identity.
C5_Witness == shDone /\ shN >= 3 /\ shOut # Identity(shN)

HolderOf(s, j) == CHOOSE d \in 0..(NShards - 1) : distribution[s + 1][d + 1] = j

\* The data shards of stripe s read back from the files, in logical order.
Decoded(s) ==
    [p \in 1..stripeSize |->
        Block(HolderOf(s, (p - 1) \div blockSize), s)[((p - 1) % blockSize) + 1]]

\* C7: after a completed run every stripe of the input is recovered from
\* the destination files and the ledger, apart from the padding of the
\* last stripe.
C7_RoundTrip ==
    pc = "done" =>
        \A s \in 0..(StripeCount(fileSize, stripeSize) - 1) :
            /\ IsPermutation(distribution[s + 1], NShards)
            /\ \A d \in 0..(NShards - 1) : Len(files[d + 1]) >= (s + 1) * blockSize
            /\ \A p \in 1..Len(InputStripe(s)) : Decoded(s)[p] = InputStripe(s)[p]

(* -------------------------------- C8 ----------------------------------- *)
\* C8: a failed write is the last thing the run does to a destination: no
\* later write is issued, no later stripe is read, and the run does not
\* complete.
C8_WriteFailureAborts ==
    \A q \in 1..Len(wlog) :
        ~wlog[q].ok =>
            /\ q = Len(wlog)
            /\ stripeno = wlog[q].stripe
            /\ pc \notin {"read", "split", "encode", "permute", "close", "done"}

(* -------------------------------- C9 ----------------------------------- *)
\* C9: with dataShards + parShards > 256 the run never gets past the flag
\* check: it ends with exit status 1 and opens, reads and writes no file.
C9_OverLimitRejectedBeforeIO ==
    dataShards + parShards > MaxShards =>
        /\ pc \in {"parse", "exit1"}
        /\ ~inputOpen
        /\ fpos = 0
        /\ handles = <<>>
        /\ wlog = <<>>

\* A run with one argument and 257 shards has been rejected.
C9_Witness == pc = "exit1" /\ nargs = 1 /\ dataShards + parShards = MaxShards + 1

(* -------------------------------- C10 ---------------------------------- *)
\* C10: every destination file holds exactly one block for each stripe
\* written to it so far, in stripe order: the block of stripe s lies at
\* offset s*blockSize and is the block written for stripe s.
C10_BlocksInStripeOrder ==
    InLoop =>
        \A d \in 0..(NShards - 1) :
            /\ Len(files[d + 1]) = Len(WritesTo(d)) * blockSize
            /\ \A q \in 1..Len(WritesTo(d)) :
                  /\ WritesTo(d)[q].stripe = q - 1
                  /\ Block(d, q - 1) = WritesTo(d)[q].bytes

(* -------------------------------- C11 ---------------------------------- *)
\* The handles opened on destination d so far.
HandlesOf(d) == { h \in 1..Len(handles) : handles[h].dest = d }

\* C11: every destination file is opened at most once during a run, and
\* of[d] stays the handle of that one open.
C11_OpenedOnce ==
    InLoop =>
        \A d \in 0..(NShards - 1) :
            /\ Cardinality(HandlesOf(d)) <= 1
            /\ HandlesOf(d) # {} => of[d + 1] \in HandlesOf(d)

(* -------------------------------- C12 ---------------------------------- *)
\* Offset in the input up to which bytes have been delivered to the loop.
Delivered == fpos - Len(rbuf)

\* C12: the loop stops only when the input is exhausted: the bytes a read
\* delivers all belong to stripe stripeno of the input, the loop is left
\* only with every input byte delivered, and a run over fileSize >= 1
\* bytes has processed ceil(fileSize/(k*blockSize)) stripes when it ends.
C12_StopsOnlyAtEndOfInput ==
    /\ pc = "split" =>
          \A p \in ReadStart..(ReadStart + b - 1) : p \div stripeSize = stripeno
    /\ pc \in {"close", "done"} => Delivered = fileSize
    /\ (Ended /\ fileSize >= 1) => Processed = StripeCount(fileSize, stripeSize)

(* -------------------------------- C14 ---------------------------------- *)
\* The destination handles that are open.
OpenHandles == { h \in 1..Len(handles) : handles[h].open }

\* C14: after a normal completion no destination handle is open, and at
\* no point of a run are more than k+m of them open.
C14_AllHandlesClosed ==
    InLoop =>
        /\ pc = "done" => OpenHandles = {}
        /\ Cardinality(OpenHandles) <= NShards

(* -------------------------------- C16 ---------------------------------- *)
\* C16: whenever the loop is about to assign distribution[stripeno],
\* stripeno is below stripeNum, and no run ends in the panic of an index
\* out of range.
C16_LedgerIndexInRange ==
    /\ pc = "permute" => stripeno < stripeNum
    /\ pc # "panic"

(* -------------------------------- C15 ---------------------------------- *)
\* The Write calls issued for stripe s so far.
WritesOf(s) == Cardinality({ q \in 1..Len(wlog) : wlog[q].stripe = s })

\* C15 as stated: the ledger entry of a stripe is recorded only after all
\* k+m shards of that stripe have been written.
C15_RecordAfterWrites ==
    InLoop => \A q \in 1..Len(recorded) : WritesOf(recorded[q]) = NShards

\* The steps of main in the order they may follow one another.
StepPairs ==
    { <<"parse", "exit1">>, <<"parse", "setup">>, <<"setup", "read">>,
      <<"read", "split">>, <<"split", "encode">>, <<"encode", "permute">>,
      <<"read", "readpanic">>, <<"split", "exit2">>, <<"encode", "exit2">>,
      <<"permute", "write">>, <<"permute", "panic">>,
      <<"write", "read">>, <<"write", "close">>, <<"close", "done">> }

\* Where each step of a stripe leaves the stripe's data, its ledger entry
\* and its writes.
StripeProgress ==
    /\ \A s \in 0..(stripeno - 1) : WritesOf(s) = NShards /\ s < Len(recorded)
    /\ \A q \in 1..Len(wlog) : wlog[q].stripe <= stripeno
    /\ pc \in {"read", "split", "encode", "permute"} =>
          WritesOf(stripeno) = 0 /\ Len(recorded) = stripeno
    /\ pc = "encode" => shards = Split(data, dataShards, parShards, blockSize)
    /\ pc \in {"permute", "write"} =>
          shards = Encode(Split(data, dataShards, parShards, blockSize),
                          dataShards, parShards, blockSize)
    /\ pc = "write" =>
          /\ Len(recorded) = stripeno + 1
          /\ WritesOf(stripeno) = idx
          /\ idx <= NShards
    /\ pc \in {"close", "done"} => WritesOf(stripeno) = NShards

\* C15 amended: within each stripe the steps occur in the order read,
\* split, encode, permute and record, write; all k+m writes of a stripe are
\* issued before the next stripe's read begins; and the ledger entry of
\* stripe s is recorded before the first shard of stripe s is written.
C15_StepsInOrder ==
    /\ [](InLoop => StripeProgress)
    /\ [][pc' # pc => <<pc, pc'>> \in StepPairs]_vars
    /\ [][wlog' # wlog => (pc = "write" /\ Len(recorded) = stripeno + 1)]_vars

\* Two stripes are done and the read of the third is about to begin.
C15_Witness == pc = "read" /\ stripeno = 2 /\ WritesOf(1) = NShards

(* -------------------------------- C13 ---------------------------------- *)
RECURSIVE Landed(_)
\* The bytes a sequence of Write calls has appended.
Landed(ws) ==
    IF ws = <<>> THEN <<>>
    ELSE (IF Head(ws).ok THEN Head(ws).bytes ELSE <<>>) \o Landed(Tail(ws))

\* C13: a read error other than end of file, or an error of Split or
\* Encode, for stripe s ends the run there: no shard of stripe s or of a
\* later stripe is written, nothing more is read, and the destination
\* files hold what the writes of the stripes before s appended.
C13_FaultAborts ==
    fault # "none" =>
        /\ pc \in {"readpanic", "exit2"}
        /\ ~ENABLED Next
        /\ \A q \in 1..Len(wlog) : wlog[q].stripe < stripeno
        /\ \A s \in 0..(stripeno - 1) : WritesOf(s) = NShards
        /\ \A d \in 0..(NShards - 1) : files[d + 1] = Landed(WritesTo(d))

\* Encode failed for the second stripe, after the first was written.
C13_Witness ==
    /\ fault = "encode"
    /\ pc = "exit2"
    /\ stripeno = 1
    /\ Len(files[1]) = blockSize

====
